---- MODULE Spec2Model ----
(***************************************************************************)
(* Healthcare AR Management Dashboard (src/app.py).                        *)
(*                                                                         *)
(* The dashboard is one Streamlit script.  Each run of the script reads    *)
(* the sidebar widgets, calls the memoized fetch_ar_data, filters the      *)
(* table, and renders metrics, the top-10 table, two charts and the        *)
(* alerts.  A run is modelled as a sequence of steps (pc), one per section *)
(* of the script; an uncaught exception ends the run (pc = "error").       *)
(*                                                                         *)
(* Numbers.  Scores are floats in the source.  The model keeps them as     *)
(* exact fractions with denominator Scale = 900, so that aging_days / 90   *)
(* * 0.4, payer_risk * 0.3 and risk * 0.3 are all integers: a score s of   *)
(* the source is the integer s * 900 here (0.7 is 630, 1.0 is 900).        *)
(* payer_risk and the denial boost are kept in tenths.  Dates are day      *)
(* numbers relative to today (today = 0, yesterday = -1).                  *)
(***************************************************************************)
EXTENDS Integers, Sequences, FiniteSets, TLC

VARIABLES
    mode,           \* USE_REAL_API: "mock" or "remote", fixed for the process
    apiCols,        \* the fields the upstream API puts in each record of "data"
    sortKind,       \* how the build's sort orders rows of equal score
    cache,          \* st.cache_data store of fetch_ar_data, per (start_date, end_date)
    populated,      \* history: per key, the last execution of the body and its age
    pc,             \* position of the current script run
    key,            \* <<start_date, end_date>> of the current run
    min_priority,   \* the slider value of the current run
    df,             \* the table of the current run (a sequence of rows)
    cols,           \* the columns of df
    requests,       \* requests.get calls made by the current run
    synths,         \* mock syntheses made by the current run
    notice,         \* what st.error / st.warning displayed in the current run
    error,          \* the uncaught exception that ended the run, or "none"
    metrics,        \* the four summary metrics, or NONE
    priority_df,    \* the top-10 table, or NONE
    aging_pivot,    \* the aging chart's data, or NONE
    prio_count,     \* the priority chart's data, or NONE
    high_risk,      \* the alerts shown, or NONE
    in_aging,       \* scoring check: aging_days of the record given
    in_payer,       \* scoring check: payer_name of the record given
    in_status,      \* scoring check: status of the record given
    out_score       \* scoring check: the score returned, or NONE

runVars == <<mode, apiCols, sortKind, cache, populated, pc, key, min_priority, df, cols,
             requests, synths, notice, error, metrics, priority_df,
             aging_pivot, prio_count, high_risk>>
scoreVars == <<in_aging, in_payer, in_status, out_score>>
vars == <<runVars, scoreVars>>

\* An optional value is a sequence: <<>> for none, <<x>> for x.
NONE == <<>>
Some(x) == <<x>>
Get(opt) == opt[1]

\* a field that holds no value (None in a record)
NULL == "None"

----------------------------------------------------------------------------
(* Program constants *)

TTL == 600                  \* st.cache_data(ttl=600), seconds
MockWindowDays == 90        \* timedelta(days=90)
AgingDivisor == 90          \* df["aging_days"] / 90
WAging == 4                 \* * 0.4, in tenths
WPayer == 3                 \* * 0.3, in tenths
WRisk == 3                  \* * 0.3, in tenths
RiskDenied == 10            \* np.where(status == "denied", 1.0, ...), in tenths
RiskOther == 5              \* np.where(..., 0.5), in tenths
DefaultPayerRisk == 3       \* fillna(0.3), in tenths
TopN == 10                  \* head(10)
AlertLimit == 5             \* head(5)
AlertAging == 45            \* df["aging_days"] > 45
AlertScoreTenths == 7       \* df["priority_score"] > 0.7
EscalateAging == 60         \* priority_df["aging_days"] > 60
DefaultMinPriorityTenths == 3   \* slider default 0.3
MaxMinPriorityTenths == 10      \* slider maximum 1.0
RecoveryTenths == 8         \* df["outstanding"] * 0.8
PrioBins == 3               \* pd.cut(..., bins=3)
FirstInvoice == 1000        \* f"INV-{i+1000}"

\* The denominator of the scores of the model.
Scale == AgingDivisor * 10

----------------------------------------------------------------------------
(* Bounds of the model *)

\* The mock date_range is daily; the model keeps every DayStep-th day of it.
DayStep == 9
\* The random draws of one synthesis repeat with this period.
MaxPeriod == 2
\* The upstream API reports records due between ApiOldest and ApiNewest days ago.
ApiOldest == 126
ApiNewest == 27
\* The scoring check gives calculate_priority every aging_days in
\* -MaxAgingDays .. MaxAgingDays.
MaxAgingDays == 120

----------------------------------------------------------------------------
(* calculate_priority *)

Payers == {"Medicare", "Blue Cross", "Aetna", "UnitedHealthcare"}
Statuses == {"open", "partial", "denied", "paid"}

\* payer_risk = {...}; df["payer_name"].map(payer_risk).fillna(0.3), in tenths
payer_risk(payer_name) ==
    CASE payer_name = "Medicare" -> 2
      [] payer_name = "Blue Cross" -> 4
      [] payer_name = "Aetna" -> 6
      [] payer_name = "UnitedHealthcare" -> 5
      [] OTHER -> DefaultPayerRisk

\* np.where with its two values exchanged
risk_exchanged(status) == IF status = "denied" THEN RiskOther ELSE RiskDenied

\* np.where(df["status"] == "denied", 1.0, 0.5), in tenths
risk(status) == IF status = "denied" THEN RiskDenied ELSE RiskOther

\* np.clip(x, lo, hi)
clip(x, lo, hi) == IF x < lo THEN lo ELSE IF x > hi THEN hi ELSE x

\* (aging_days / 90) * 0.4 + payer_risk * 0.3 + risk * 0.3, times Scale.
\* Every division is exact.
RawScore(aging_days, payer_name, status) ==
    (aging_days * WAging * Scale) \div (AgingDivisor * 10)
    + (payer_risk(payer_name) * WPayer * Scale) \div 100
    + (risk(status) * WRisk * Scale) \div 100

\* the score without np.clip
RowScoreNoClip(r) == RawScore(r.aging_days, r.payer_name, r.status)

\* One row of calculate_priority's result.
RowScore(r) == clip(RawScore(r.aging_days, r.payer_name, r.status), 0, Scale)

\* calculate_priority(df): the score of every row, in row order.
calculate_priority(rows) == [i \in DOMAIN rows |-> RowScore(rows[i])]

----------------------------------------------------------------------------
(* Tables *)

RECURSIVE Sum(_)
\* Series.sum(): the sum of a sequence of numbers
Sum(xs) == IF xs = <<>> THEN 0 ELSE Head(xs) + Sum(Tail(xs))

\* df[column]: the values of one column, in row order
Column(rows, name) == [i \in DOMAIN rows |-> rows[i][name]]

\* df.head(n)
head(rows, n) == SubSeq(rows, 1, IF Len(rows) < n THEN Len(rows) ELSE n)

\* r with field name set to value (a new column, or an overwritten one)
WithField(r, name, value) ==
    [f \in DOMAIN r \cup {name} |-> IF f = name THEN value ELSE r[f]]

\* (pd.to_datetime("today") - pd.to_datetime(due_date)).dt.days
AgingDays(due_date) == 0 - due_date

----------------------------------------------------------------------------
(* The records of one source.  The draws of np.random are a stream: a       *)
(* sequence of profiles that repeats.  A profile fixes the fields a record  *)
(* draws at random (last_followup and notes, which no step reads, are left  *)
(* out).                                                                    *)

Profiles == <<
    [patient_id |-> 1001, payer_name |-> "Aetna", amount_due |-> 500,
     amount_paid |-> 200, status |-> "denied", denial_reason |-> "CO-45: Charge exceeds fee"],
    [patient_id |-> 1002, payer_name |-> "Medicare", amount_due |-> 500,
     amount_paid |-> 200, status |-> "denied", denial_reason |-> NULL],
    [patient_id |-> 1003, payer_name |-> "Blue Cross", amount_due |-> 500,
     amount_paid |-> 700, status |-> "open", denial_reason |-> NULL] >>

\* The streams of the model: the cycles of MaxPeriod profiles, each cycle
\* written from its first profile of the list to its last
Streams ==
    {s \in [1..MaxPeriod -> DOMAIN Profiles] :
        \A i \in 1..(MaxPeriod - 1) : s[i] <= s[i + 1]}

\* the i-th draw (i from 0) of a stream
Draw(stream, i) == Profiles[stream[(i % MaxPeriod) + 1]]

\* pd.date_range(start=now - 90 days, end=now, freq="D"), every DayStep-th day
MockDates ==
    [k \in 1..((MockWindowDays \div DayStep) + 1) |->
        (0 - MockWindowDays) + (k - 1) * DayStep]

\* mock_data.append({...}) for the i-th date of the range
MockRecord(i, date, stream) ==
    LET p == Draw(stream, i) IN
    [invoice_id |-> FirstInvoice + i * DayStep,
     patient_id |-> p.patient_id,
     payer_name |-> p.payer_name,
     amount_due |-> p.amount_due,
     amount_paid |-> p.amount_paid,
     status |-> p.status,
     due_date |-> date,
     denial_reason |-> p.denial_reason]

MockRawCols == {"invoice_id", "patient_id", "payer_name", "amount_due",
                "amount_paid", "status", "due_date", "denial_reason"}

\* The derived columns of the mock path: aging_days, outstanding, then
\* calculate_priority, which adds payer_risk to df and returns priority_score.
MockDerive(rows) ==
    LET aged == [i \in DOMAIN rows |->
                    WithField(rows[i], "aging_days", AgingDays(rows[i].due_date))]
        outs == [i \in DOMAIN rows |->
                    WithField(aged[i], "outstanding",
                              aged[i].amount_due - aged[i].amount_paid)]
        scores == calculate_priority(outs)
    IN  [i \in DOMAIN rows |->
            WithField(WithField(outs[i], "payer_risk", payer_risk(outs[i].payer_name)),
                      "priority_score", scores[i])]

MockCols == MockRawCols \cup {"aging_days", "outstanding", "payer_risk", "priority_score"}

\* The mock branch of fetch_ar_data: one record per date, then the derived
\* columns.  start_date and end_date are not read.
fetch_mock(start_date, end_date, stream) ==
    [df |-> MockDerive([k \in DOMAIN MockDates |->
                            MockRecord(k - 1, MockDates[k], stream)]),
     cols |-> MockCols,
     notice |-> "Demo Mode",
     raised |-> "none"]

----------------------------------------------------------------------------
(* The upstream API.  What it answers is an input of the program: the      *)
(* outcome of the request, and on a 200 answer the records of "data", each *)
(* holding the fields apiCols.                                             *)

ApiMinimal == MockRawCols
ApiFull == ApiMinimal \cup {"outstanding", "priority_score", "aging_bucket"}
ApiNoDueDate == ApiMinimal \ {"due_date"}
ApiShapes == {ApiNoDueDate, ApiMinimal, ApiFull}

Outcomes == {"ok", "status", "timeout", "badjson"}

ApiDates ==
    [k \in 1..(((ApiOldest - ApiNewest) \div DayStep) + 1) |->
        (0 - ApiOldest) + (k - 1) * DayStep]

\* the label an upstream that buckets its own records gives
ApiBucket(age) ==
    IF age <= 30 THEN "0-30" ELSE IF age <= 60 THEN "31-60"
    ELSE IF age <= 90 THEN "61-90" ELSE "90+"

\* One record of "data", with every field an upstream may send.
ApiRecord(i, date, stream) ==
    LET p == Draw(stream, i) IN
    [invoice_id |-> FirstInvoice + i,
     patient_id |-> p.patient_id,
     payer_name |-> p.payer_name,
     amount_due |-> p.amount_due,
     amount_paid |-> p.amount_paid,
     status |-> p.status,
     due_date |-> date,
     denial_reason |-> p.denial_reason,
     outstanding |-> p.amount_due - p.amount_paid,
     priority_score |-> clip(RawScore(0 - date, p.payer_name, p.status), 0, Scale),
     aging_bucket |-> ApiBucket(0 - date)]

\* What a 200 answer holds: no record (<<>>), or one record per date drawn
\* from a stream
Answers == {<<>>} \cup Streams

\* The "data" of a 200 answer, cut to the fields the upstream sends.
ApiData(fields, answer) ==
    IF answer = <<>> THEN <<>>
    ELSE [k \in DOMAIN ApiDates |->
            LET record == ApiRecord(k - 1, ApiDates[k], answer)
            IN  [f \in fields |-> record[f]]]

\* The failure branches of the remote path: st.error(...); return pd.DataFrame()
RemoteFailure(message) ==
    [df |-> <<>>, cols |-> {}, notice |-> message, raised |-> "none"]

\* The remote branch with an except clause that lets a timeout through
fetch_remote_uncaught(outcome, fields, data) ==
    IF outcome = "timeout"
    THEN [df |-> <<>>, cols |-> {}, notice |-> "", raised |-> "Timeout"]
    ELSE IF outcome = "badjson" THEN RemoteFailure("Connection issue")
    ELSE IF outcome = "status" THEN RemoteFailure("API Error")
    ELSE IF data = <<>> \/ "due_date" \notin fields \/ "status" \notin fields
         THEN RemoteFailure("Connection issue")
    ELSE [df |-> [i \in DOMAIN data |->
                    WithField(WithField(data[i], "aging_days",
                                        AgingDays(data[i].due_date)),
                              "denial_risk",
                              IF data[i].status = "denied" THEN 10 ELSE 1)],
          cols |-> fields \cup {"aging_days", "denial_risk"},
          notice |-> "",
          raised |-> "none"]

\* The remote branch of fetch_ar_data, after requests.get: the outcome of the
\* request and the records of a 200 answer decide the result.  An exception
\* from requests.get or response.json(), and the KeyError of a missing
\* due_date or status column (also of an empty "data"), reach the except clause.
fetch_remote(outcome, fields, data) ==
    IF outcome \in {"timeout", "badjson"} THEN RemoteFailure("Connection issue")
    ELSE IF outcome = "status" THEN RemoteFailure("API Error")
    ELSE IF data = <<>> \/ "due_date" \notin fields \/ "status" \notin fields
         THEN RemoteFailure("Connection issue")
    ELSE [df |-> [i \in DOMAIN data |->
                    WithField(WithField(data[i], "aging_days",
                                        AgingDays(data[i].due_date)),
                              "denial_risk",
                              IF data[i].status = "denied" THEN 10 ELSE 1)],
          cols |-> fields \cup {"aging_days", "denial_risk"},
          notice |-> "",
          raised |-> "none"]

\* (start_date, end_date) of the two date inputs: the default, and a later start
Keys == {<<0 - MockWindowDays, 0>>, <<0 - DayStep, 0>>}

\* Every result the two branches can return, by input.
MockResults ==
    [k \in Keys, stream \in Streams |-> fetch_mock(k[1], k[2], stream)]
RemoteResults ==
    [fields \in ApiShapes, outcome \in Outcomes, answer \in Answers |->
        fetch_remote(outcome, fields, ApiData(fields, answer))]

----------------------------------------------------------------------------
(* The filter and aggregation steps, each a function of the table *)

\* df[df["priority_score"] >= min_priority], then df[df["outstanding"] > 0]
ThresholdFilter(rows, threshold) ==
    SelectSeq(SelectSeq(rows, LAMBDA r : r.priority_score >= threshold),
              LAMBDA r : r.outstanding > 0)

\* Series.mean(): NaN (here <<>>) for no rows, else the fraction <<sum, count>>
Mean(xs) == IF xs = <<>> THEN <<>> ELSE <<Sum(xs), Len(xs)>>

\* total_ar, total_accounts, avg_dso, recovery_potential (in tenths)
KeyMetrics(rows) ==
    [total_ar |-> Sum(Column(rows, "outstanding")),
     total_accounts |-> Len(rows),
     avg_dso |-> Mean(Column(rows, "aging_days")),
     recovery_potential |->
        Sum([i \in DOMAIN rows |-> rows[i].outstanding * RecoveryTenths])]

\* The order sort_values gives rows of equal score.  kind="quicksort" (the
\* default) is not a stable sort: what it does with equal rows is fixed by
\* the build, which keeps their order ("keep") or not ("swap", here the
\* reverse order).
SortKinds == {"keep", "swap"}

\* The place of row i in df.sort_values("priority_score", ascending=False)
Rank(rows, i, kind) ==
    Cardinality({j \in DOMAIN rows : rows[j].priority_score > rows[i].priority_score})
    + Cardinality({j \in DOMAIN rows :
                    /\ rows[j].priority_score = rows[i].priority_score
                    /\ IF kind = "keep" THEN j < i ELSE j > i})
    + 1

\* df.sort_values("priority_score", ascending=False)
sort_values(rows, kind) ==
    [k \in DOMAIN rows |-> rows[CHOOSE i \in DOMAIN rows : Rank(rows, i, kind) = k]]

\* (score * 100).round(0).astype(int); score * 100 is never half-way
Percent(score) == (2 * 100 * score + Scale) \div (2 * Scale)

\* pd.cut(x, bins=[0, 30, 60, 90, inf], labels=[...]): intervals open on the
\* left and closed on the right; a value in no interval gets NaN
pd_cut(x) ==
    IF x <= 0 THEN "NaN"
    ELSE IF x <= 30 THEN "0-30"
    ELSE IF x <= 60 THEN "31-60"
    ELSE IF x <= 90 THEN "61-90"
    ELSE "90+"

\* np.where(aging_days > 60, "Escalate to Collector", "Auto-Followup Email")
next_action(age) ==
    IF age > EscalateAging THEN "Escalate to Collector" ELSE "Auto-Followup Email"

\* The sorted head of the table, before the display columns are derived.
TopRows(rows, kind) == head(sort_values(rows, kind), TopN)

\* priority_df: a copy of the sorted head, with the score as a percentage
\* and the columns aging_bucket and next_action
PriorityTable(rows, kind) ==
    LET top == TopRows(rows, kind) IN
    [i \in DOMAIN top |->
        WithField(WithField(WithField(top[i],
            "priority_score", Percent(top[i].priority_score)),
            "aging_bucket", pd_cut(top[i].aging_days)),
            "next_action", next_action(top[i].aging_days))]

display_cols == {"invoice_id", "patient_id", "payer_name", "outstanding",
                 "aging_days", "priority_score", "next_action", "denial_reason"}

\* df.groupby("aging_bucket")["outstanding"].sum(): one total per label
\* present; rows without a label are in no group
AgingPivot(rows) ==
    [b \in {rows[i].aging_bucket : i \in DOMAIN rows} \ {"NaN"} |->
        Sum(Column(SelectSeq(rows, LAMBDA r : r.aging_bucket = b), "outstanding"))]

Min(xs) == CHOOSE x \in {xs[i] : i \in DOMAIN xs} : \A j \in DOMAIN xs : x <= xs[j]
Max(xs) == CHOOSE x \in {xs[i] : i \in DOMAIN xs} : \A j \in DOMAIN xs : x >= xs[j]

\* pd.cut(scores, bins=3, labels=["Low", "Med", "High"]): three bins of equal
\* width over [min, max], closed on the right, the first one holding min;
\* when min = max the range is widened on both sides
PrioBin(score, lo, hi) ==
    IF lo = hi THEN "Med"
    ELSE IF PrioBins * (score - lo) <= hi - lo THEN "Low"
    ELSE IF PrioBins * (score - lo) <= 2 * (hi - lo) THEN "Med"
    ELSE "High"

\* df.groupby(prio_bins).size()
PrioCount(rows) ==
    LET scores == Column(rows, "priority_score") IN
    [b \in {"Low", "Med", "High"} |->
        Cardinality({i \in DOMAIN rows :
                        PrioBin(scores[i], Min(scores), Max(scores)) = b})]

\* (df["priority_score"] > 0.7) & (df["aging_days"] > 45)
IsHighRisk(r) ==
    /\ 10 * r.priority_score > AlertScoreTenths * Scale
    /\ r.aging_days > AlertAging

\* the alerts taken from the sorted table
AlertsOfSorted(rows) ==
    head(SelectSeq(sort_values(rows, "keep"), IsHighRisk), AlertLimit)

\* high_risk.head(5): the alerts shown
Alerts(rows) == head(SelectSeq(rows, IsHighRisk), AlertLimit)

----------------------------------------------------------------------------
(* The cache of fetch_ar_data *)

\* the slider: its default, and its maximum
MinPriorities == {(DefaultMinPriorityTenths * Scale) \div 10,
                  (MaxMinPriorityTenths * Scale) \div 10}

\* an entry that leaves the cache one second early
ExpiredEarly(age) == age >= TTL - 1

\* an entry of that age is no longer served
Expired(age) == age >= TTL

\* the time that passes between two runs, in seconds
Delays == {TTL - 1, TTL}

Terminal == {"idle", "stopped", "done", "error"}

----------------------------------------------------------------------------
(* One run of the script *)

\* A rerun starts: the widgets are read and the results of the last run go.
StartRun(k, threshold) ==
    /\ pc \in Terminal
    /\ key' = k
    /\ min_priority' = threshold
    /\ metrics' = NONE
    /\ priority_df' = NONE
    /\ aging_pivot' = NONE
    /\ prio_count' = NONE
    /\ high_risk' = NONE
    /\ UNCHANGED <<mode, apiCols, sortKind, scoreVars>>

\* What the call leaves: the table for the script, the entry for the cache.
\* An exception is not memoized and ends the run.
\* The history keeps the input that decided the result (drawn), not the table.
Returned(k, r, drawn) ==
    /\ df' = r.df
    /\ cols' = r.cols
    /\ notice' = r.notice
    /\ error' = r.raised
    /\ populated' = [populated EXCEPT ![k] = Some([drawn |-> drawn, age |-> 0])]
    /\ IF r.raised = "none"
       THEN /\ pc' = "fetched"
            /\ cache' = [cache EXCEPT ![k] =
                            Some([df |-> r.df, cols |-> r.cols,
                                  notice |-> r.notice, age |-> 0])]
       ELSE /\ pc' = "error"
            /\ cache' = cache

\* df = fetch_ar_data(start_date, end_date), served from the cache: the body
\* does not run, the memoized table and messages are replayed.
FetchCached ==
    \E k \in Keys, threshold \in MinPriorities :
        /\ StartRun(k, threshold)
        /\ cache[k] # NONE
        /\ df' = Get(cache[k]).df
        /\ cols' = Get(cache[k]).cols
        /\ notice' = Get(cache[k]).notice
        /\ error' = "none"
        /\ requests' = 0
        /\ synths' = 0
        /\ pc' = "fetched"
        /\ UNCHANGED <<cache, populated>>

\* df = fetch_ar_data(start_date, end_date), mock branch
FetchMock ==
    \E k \in Keys, threshold \in MinPriorities, stream \in Streams :
        /\ StartRun(k, threshold)
        /\ mode = "mock"
        /\ cache[k] = NONE
        /\ requests' = 0
        /\ synths' = 1
        /\ Returned(k, MockResults[k, stream], <<"ok", stream>>)

\* df = fetch_ar_data(start_date, end_date), remote branch: one requests.get
FetchRemote ==
    \E k \in Keys, threshold \in MinPriorities, outcome \in Outcomes,
       answer \in Answers :
        /\ StartRun(k, threshold)
        /\ mode = "remote"
        /\ cache[k] = NONE
        /\ requests' = 1
        /\ synths' = 0
        /\ outcome # "ok" => answer = <<>>
        /\ Returned(k, RemoteResults[apiCols, outcome, answer], <<outcome, answer>>)

\* if df.empty: st.warning(...); st.stop()
StopNoData ==
    /\ pc = "fetched"
    /\ df = <<>>
    /\ notice' = "No data in range"
    /\ pc' = "stopped"
    /\ UNCHANGED <<mode, apiCols, sortKind, cache, populated, key, min_priority, df, cols,
                   requests, synths, error, metrics, priority_df, aging_pivot,
                   prio_count, high_risk, scoreVars>>

\* The threshold filter.  A column the table lacks is a KeyError.
Filter ==
    /\ pc = "fetched"
    /\ df # <<>>
    /\ IF {"priority_score", "outstanding"} \subseteq cols
       THEN /\ df' = ThresholdFilter(df, min_priority)
            /\ pc' = "filtered"
            /\ error' = error
       ELSE /\ df' = df
            /\ pc' = "error"
            /\ error' = "KeyError"
    /\ UNCHANGED <<mode, apiCols, sortKind, cache, populated, key, min_priority, cols,
                   requests, synths, notice, metrics, priority_df, aging_pivot,
                   prio_count, high_risk, scoreVars>>

\* The key metrics
Metrics ==
    /\ pc = "filtered"
    /\ metrics' = Some(KeyMetrics(df))
    /\ pc' = "metrics"
    /\ UNCHANGED <<mode, apiCols, sortKind, cache, populated, key, min_priority, df, cols,
                   requests, synths, notice, error, priority_df, aging_pivot,
                   prio_count, high_risk, scoreVars>>

\* The prioritized accounts table
PriorityAccounts ==
    /\ pc = "metrics"
    /\ priority_df' = Some(PriorityTable(df, sortKind))
    /\ IF display_cols \subseteq cols \cup {"aging_bucket", "next_action"}
       THEN pc' = "table" /\ error' = error
       ELSE pc' = "error" /\ error' = "KeyError"
    /\ UNCHANGED <<mode, apiCols, sortKind, cache, populated, key, min_priority,
                   df, cols, requests, synths, notice, metrics, aging_pivot,
                   prio_count, high_risk, scoreVars>>

\* The aging chart: df.groupby("aging_bucket").  df is not priority_df: it
\* has the column only when the source gave it.
AgingChart ==
    /\ pc = "table"
    /\ IF "aging_bucket" \in cols
       THEN /\ aging_pivot' = Some(AgingPivot(df))
            /\ pc' = "aging"
            /\ error' = error
       ELSE /\ aging_pivot' = aging_pivot
            /\ pc' = "error"
            /\ error' = "KeyError"
    /\ UNCHANGED <<mode, apiCols, sortKind, cache, populated, key, min_priority, df, cols,
                   requests, synths, notice, metrics, priority_df,
                   prio_count, high_risk, scoreVars>>

\* The priority chart: pd.cut(..., bins=3) raises ValueError on no rows
PriorityChart ==
    /\ pc = "aging"
    /\ IF df # <<>>
       THEN /\ prio_count' = Some(PrioCount(df))
            /\ pc' = "prio"
            /\ error' = error
       ELSE /\ prio_count' = prio_count
            /\ pc' = "error"
            /\ error' = "ValueError"
    /\ UNCHANGED <<mode, apiCols, sortKind, cache, populated, key, min_priority, df, cols,
                   requests, synths, notice, metrics, priority_df,
                   aging_pivot, high_risk, scoreVars>>

\* The predictive alerts
PredictiveAlerts ==
    /\ pc = "prio"
    /\ high_risk' = Some(Alerts(df))
    /\ pc' = "alerts"
    /\ UNCHANGED <<mode, apiCols, sortKind, cache, populated, key, min_priority, df, cols,
                   requests, synths, notice, error, metrics, priority_df,
                   aging_pivot, prio_count, scoreVars>>

\* Export, notes and footer: the run ends
Finish ==
    /\ pc = "alerts"
    /\ pc' = "done"
    /\ UNCHANGED <<mode, apiCols, sortKind, cache, populated, key, min_priority, df, cols,
                   requests, synths, notice, error, metrics, priority_df,
                   aging_pivot, prio_count, high_risk, scoreVars>>

\* Time passes between two runs; entries that reach the ttl leave the cache.
Advance ==
    \E d \in Delays :
        /\ pc \in Terminal
        /\ \E k \in Keys : populated[k] # NONE
        /\ cache' = [k \in Keys |->
                        IF cache[k] = NONE THEN NONE
                        ELSE IF Expired(Get(cache[k]).age + d) THEN NONE
                        ELSE Some([Get(cache[k]) EXCEPT !.age = @ + d])]
        /\ populated' = [k \in Keys |->
                            IF populated[k] = NONE THEN NONE
                            ELSE IF Get(populated[k]).age + d >= TTL THEN NONE
                            ELSE Some([Get(populated[k]) EXCEPT !.age = @ + d])]
        /\ UNCHANGED <<mode, apiCols, sortKind, pc, key, min_priority, df, cols, requests,
                       synths, notice, error, metrics, priority_df, aging_pivot,
                       prio_count, high_risk, scoreVars>>

InitRun ==
    /\ sortKind \in SortKinds
    /\ cache = [k \in Keys |-> NONE]
    /\ populated = [k \in Keys |-> NONE]
    /\ pc = "idle"
    /\ key = <<0 - MockWindowDays, 0>>
    /\ min_priority = (DefaultMinPriorityTenths * Scale) \div 10
    /\ df = <<>>
    /\ cols = {}
    /\ requests = 0
    /\ synths = 0
    /\ notice = ""
    /\ error = "none"
    /\ metrics = NONE
    /\ priority_df = NONE
    /\ aging_pivot = NONE
    /\ prio_count = NONE
    /\ high_risk = NONE

Init ==
    /\ \/ mode = "mock" /\ apiCols = {}
       \/ mode = "remote" /\ apiCols \in ApiShapes
    /\ InitRun
    /\ in_aging = 0
    /\ in_payer = "Medicare"
    /\ in_status = "open"
    /\ out_score = NONE

Next ==
    \/ FetchCached
    \/ FetchMock
    \/ FetchRemote
    \/ StopNoData
    \/ Filter
    \/ Metrics
    \/ PriorityAccounts
    \/ AgingChart
    \/ PriorityChart
    \/ PredictiveAlerts
    \/ Finish
    \/ Advance

Spec == Init /\ [][Next]_vars

----------------------------------------------------------------------------
(* calculate_priority on one record, for every record of the bounds *)

ScorePayers == Payers \cup {"Cigna"}

InitScore ==
    /\ mode = "mock" /\ apiCols = {}
    /\ InitRun
    /\ sortKind = "keep"
    /\ in_aging \in (0 - MaxAgingDays)..MaxAgingDays
    /\ in_payer \in ScorePayers
    /\ in_status \in Statuses
    /\ out_score = NONE

\* df["priority_score"] = calculate_priority(df), df holding the one record
Score ==
    /\ out_score = NONE
    /\ out_score' = Some(calculate_priority(
            <<[aging_days |-> in_aging, payer_name |-> in_payer,
               status |-> in_status]>>)[1])
    /\ UNCHANGED <<runVars, in_aging, in_payer, in_status>>

NextScore == Score

SpecScore == InitScore /\ [][NextScore]_vars

----------------------------------------------------------------------------
(* Properties *)

\* the score has been computed for the record given
Scored == out_score # NONE

\* C1: for every record (any integer aging_days, negative or above 90, any
\* payer known or not, any status), the priority_score calculate_priority
\* returns lies in [0, 1].
C1_ScoreInUnitInterval ==
    Scored => Get(out_score) >= 0 /\ Get(out_score) <= Scale

\* C1 witness: a record whose weighted sum exceeds 1 has been scored.
C1_Witness ==
    /\ Scored
    /\ in_aging > AgingDivisor
    /\ 4 * in_aging + 27 * 6 + 27 * 10 > Scale
    /\ in_payer = "Aetna" /\ in_status = "denied"
    /\ Get(out_score) = Scale

\* The lookup tables of the specification, in tenths.
SpecPayerRisk ==
    [p \in ScorePayers |->
        IF p = "Medicare" THEN 2 ELSE IF p = "Blue Cross" THEN 4
        ELSE IF p = "Aetna" THEN 6 ELSE IF p = "UnitedHealthcare" THEN 5 ELSE 3]
SpecRiskBoost == [st \in Statuses |-> IF st = "denied" THEN 10 ELSE 5]

\* clamp01, on numbers with denominator 900
Clamp01(x) == IF x < 0 THEN 0 ELSE IF x > 900 THEN 900 ELSE x

\* 0.4 * clamp01(aging_days / 90) with denominator 900
ClampedAgingTerm(a) == IF a < 0 THEN 0 ELSE IF a > 90 THEN 360 ELSE 4 * a

\* C2 as claimed: calculate_priority returns
\* clamp01(0.4 * clamp01(aging_days / 90) + 0.3 * payer_risk + 0.3 * risk_boost);
\* a record with aging_days = 100, payer Medicare, status open scores 0.61
\* (549 / 900).
C2_AsClaimed ==
    Scored =>
        /\ Get(out_score) =
              Clamp01(ClampedAgingTerm(in_aging) + 27 * SpecPayerRisk[in_payer]
                      + 27 * SpecRiskBoost[in_status])
        /\ (in_aging = 100 /\ in_payer = "Medicare" /\ in_status = "open")
              => Get(out_score) = 549

\* C2 amended: calculate_priority returns
\* clamp01(0.4 * (aging_days / 90) + 0.3 * payer_risk + 0.3 * risk_boost), the
\* aging term not clamped on its own; a record with aging_days = 100, payer
\* Medicare, status open scores 589 / 900 (0.6544...).
C2_ClampOnlyAtEnd ==
    Scored =>
        /\ Get(out_score) =
              Clamp01(4 * in_aging + 27 * SpecPayerRisk[in_payer]
                      + 27 * SpecRiskBoost[in_status])
        /\ (in_aging = 100 /\ in_payer = "Medicare" /\ in_status = "open")
              => Get(out_score) = 589

\* C2 witness: the record of the example has been scored.
C2_Witness ==
    /\ Scored
    /\ in_aging = 100 /\ in_payer = "Medicare" /\ in_status = "open"
    /\ Get(out_score) = 589

\* C3: if the table is empty after the threshold filter, the run stops in
\* the "no data" state: no metric, top-10 table, chart or alert step runs on
\* the empty table.
C3_EmptyAfterFilterStops ==
    (pc \notin {"idle", "fetched", "stopped"} /\ df = <<>>) =>
        /\ metrics = NONE
        /\ priority_df = NONE
        /\ aging_pivot = NONE
        /\ prio_count = NONE
        /\ high_risk = NONE

\* the aging chart's step has been taken (it follows the top-10 table)
AgingStepTaken == priority_df # NONE /\ pc # "table"

\* C4: the aging aggregation puts every record of the filtered table in
\* exactly one of the four buckets: every record with an integer aging_days
\* (0 included) that is given a bucket gets one of the four labels, and once
\* the aggregation has run the per-bucket totals exist and add up to the
\* total outstanding of the filtered table.
C4_BucketsPartitionTotal ==
    /\ priority_df # NONE =>
          \A i \in DOMAIN Get(priority_df) :
              Get(priority_df)[i].aging_bucket \in {"0-30", "31-60", "61-90", "90+"}
    /\ AgingStepTaken =>
          /\ aging_pivot # NONE
          /\ DOMAIN Get(aging_pivot) \subseteq {"0-30", "31-60", "61-90", "90+"}
          /\ Sum([i \in 1..4 |->
                    LET label == <<"0-30", "31-60", "61-90", "90+">>[i]
                    IN  IF label \in DOMAIN Get(aging_pivot)
                        THEN Get(aging_pivot)[label] ELSE 0])
             = Sum(Column(df, "outstanding"))

\* the current run executed the body of fetch_ar_data, and this is its input
BodyRan == requests + synths > 0 /\ populated[key] # NONE
           /\ Get(populated[key]).age = 0
LastDrawn == Get(populated[key]).drawn

\* the request of the current run got a 200 answer that parses and holds
\* records with the fields the code reads
GoodAnswer ==
    /\ LastDrawn[1] = "ok"
    /\ LastDrawn[2] # <<>>
    /\ {"due_date", "status"} \subseteq apiCols

\* C5: in remote mode a call of fetch_ar_data that reaches the upstream
\* issues exactly one request, never a second one; for every outcome other
\* than a 200 answer that parses it returns an empty table and raises
\* nothing, and the run then ends in the "no data" state.
C5_RemoteFailureIsNoData ==
    (mode = "remote" /\ pc # "idle") =>
        /\ synths = 0
        /\ requests \in {0, 1}
        /\ (BodyRan /\ ~GoodAnswer) =>
              /\ requests = 1
              /\ df = <<>>
              /\ error = "none"
              /\ pc \in {"fetched", "stopped"}
              /\ pc = "stopped" => notice = "No data in range"

\* C5 witness: a run whose request timed out has stopped in "no data".
C5_Witness ==
    /\ mode = "remote"
    /\ pc = "stopped"
    /\ BodyRan
    /\ LastDrawn[1] = "timeout"
    /\ requests = 1
    /\ notice = "No data in range"

\* C6: whichever source is active, every non-empty table fetch_ar_data
\* returns carries aging_days, outstanding and priority_score, and the
\* threshold filter never reads a column the table lacks.
C6_SameShape ==
    /\ (pc = "fetched" /\ df # <<>>) =>
          {"aging_days", "outstanding", "priority_score"} \subseteq cols
    /\ (pc = "error" /\ metrics = NONE) => error # "KeyError"

\* the place of a record in the filtered table
Place(id) == CHOOSE i \in DOMAIN df : df[i].invoice_id = id
\* the score of a record in the filtered table
ScoreOf(id) == df[Place(id)].priority_score
Least(a, b) == IF a < b THEN a ELSE b

\* C7: the top-N list holds exactly min(10, n) records of the filtered
\* table, by descending priority_score, records of equal score in their
\* original relative order; no record left out scores higher than a record
\* selected.
C7_TopTenStable ==
    priority_df # NONE =>
        LET top == Get(priority_df)
            chosen == {top[a].invoice_id : a \in DOMAIN top}
        IN  /\ Len(top) = Least(TopN, Len(df))
            /\ Cardinality(chosen) = Len(top)
            /\ chosen \subseteq {df[i].invoice_id : i \in DOMAIN df}
            /\ \A a \in 1..(Len(top) - 1) :
                  \/ ScoreOf(top[a].invoice_id) > ScoreOf(top[a + 1].invoice_id)
                  \/ /\ ScoreOf(top[a].invoice_id) = ScoreOf(top[a + 1].invoice_id)
                     /\ Place(top[a].invoice_id) < Place(top[a + 1].invoice_id)
            /\ \A i \in DOMAIN df :
                  df[i].invoice_id \notin chosen =>
                      \A a \in DOMAIN top :
                          df[i].priority_score <= ScoreOf(top[a].invoice_id)

\* The records the alert selection is to take, from the table the call
\* returned: those that pass the threshold filter, score above 0.7 and are
\* older than 45 days, by their place in that table.
Fetched == Get(cache[key]).df
AlertPlaces ==
    {i \in DOMAIN Fetched :
        /\ Fetched[i].priority_score >= min_priority
        /\ Fetched[i].outstanding > 0
        /\ Fetched[i].priority_score * 10 > 7 * 900
        /\ Fetched[i].aging_days > 45}
NthAlertPlace(n) ==
    CHOOSE i \in AlertPlaces : Cardinality({j \in AlertPlaces : j < i}) = n - 1

\* C8: the alert list is exactly the first min(5, k) records, in the
\* table's original order, of the k records with priority_score > 0.7 (on
\* the 0-1 scale) and aging_days > 45; it never holds more than 5 records,
\* and the scores it reads are those of the table, not the percentages of
\* the top-10 table.
C8_AlertsFirstFive ==
    pc = "alerts" =>
        /\ priority_df # NONE
        /\ Len(Get(high_risk)) = Least(5, Cardinality(AlertPlaces))
        /\ \A n \in DOMAIN Get(high_risk) :
              Get(high_risk)[n] = Fetched[NthAlertPlace(n)]

\* C8 witness: more than 5 records qualify, among them one that does not
\* follow the order of the scores, and 5 alerts are shown.
C8_Witness ==
    /\ pc = "alerts"
    /\ Cardinality(AlertPlaces) > 5
    /\ Len(Get(high_risk)) = 5
    /\ \E n \in 1..4 :
          Get(high_risk)[n].priority_score < Get(high_risk)[n + 1].priority_score
    /\ \E i \in DOMAIN df : ~IsHighRisk(df[i])

\* a step that calls fetch_ar_data
IsFetch == pc \in Terminal /\ pc' = "fetched"

\* C9: a call with the same (start_date, end_date) less than 10 minutes
\* after the call that populated the cache for the pair returns the
\* memoized table with no request and no synthesis; the body runs only on
\* the first call for a pair or after its entry has expired.
C9_MemoizedWithinTtl ==
    [][IsFetch =>
        IF populated[key'] # NONE
        THEN /\ Get(populated[key']).age < TTL
             /\ requests' = 0
             /\ synths' = 0
             /\ populated' = populated
             /\ cache' = cache
             /\ df' = IF mode = "mock"
                      THEN MockResults[key', Get(populated[key']).drawn[2]].df
                      ELSE RemoteResults[apiCols, Get(populated[key']).drawn[1],
                                         Get(populated[key']).drawn[2]].df
        ELSE TRUE]_vars

\* C9 witness: a call 599 seconds after the populating call was served
\* from the cache.
C9_Witness ==
    /\ pc = "fetched"
    /\ requests = 0
    /\ synths = 0
    /\ populated[key] # NONE
    /\ Get(populated[key]).age = TTL - 1
    /\ df # <<>>

\* C10: in mock mode, for start_date <= end_date, every record of the
\* returned table has its due_date in [start_date, end_date].
C10_MockDueDatesInRange ==
    (mode = "mock" /\ pc = "fetched" /\ key[1] <= key[2]) =>
        \A i \in DOMAIN df :
            key[1] <= df[i].due_date /\ df[i].due_date <= key[2]

====
